---- MODULE Spec2Model ----
(***************************************************************************)
(* Model of the RimDefs builder (tools/rimdefs_build.py): mod-root         *)
(* discovery, pruned directory walk, definition extraction, schema         *)
(* accumulation, version detection and the per-layer build loop.           *)
(*                                                                         *)
(* A path is a sequence of segment names, <<>> being the filesystem root.  *)
(***************************************************************************)
EXTENDS Integers, Sequences, FiniteSets, TLC

VARIABLES
    mod_roots,      \* add_mod_root / discover_mod_dirs: the Set[Path] being maintained
    fed,            \* the candidates handed to add_mod_root so far
    lastAdd,        \* what the last add_mod_root call did: "none", "dominated", "added", "replaced"
    dirs,           \* the filesystem: the directories that exist (real paths)
    abouts,         \* the directories d for which d/About/About.xml exists
    files,          \* the filesystem: the plain files that exist (real paths)
    scan_root,      \* discover_mod_dirs: its argument
    pc,             \* "setup" while the tree is being laid out, then the running operation's position
    pendingAbout,   \* what scan_root.rglob("About/About.xml") has yet to yield
    pendingDefs,    \* what scan_root.rglob("Defs") has yet to yield
    result,         \* the list discover_mod_dirs returned
    base_dir,       \* iter_xml_files_pruned: its base_dir, resolved
    prune,          \* iter_xml_files_pruned: prune_dirs_lower
    wstack,         \* os.walk: the directories still to visit, the next one first
    xml_files,      \* the paths iter_xml_files_pruned has yielded, in order
    doc,            \* iter_def_elements: the document behind file_path
    yielded,        \* iter_def_elements: what it yielded, in order (0 the root, i the i-th child)
    elem,           \* extract_def_name: its argument
    def_name,       \* build_layer: def_name of the Item Record
    meta,           \* the schema registry: meta["defTypes"], as the types registered and each member's kind
    kept,           \* whether the last accumulate_meta call left a recorded kind above the observed one
    vfiles,         \* the filesystem: what Version.txt is in each directory that has one
    official_roots, \* detect_rimworld_version: its argument
    vi,             \* detect_rimworld_version: how many roots the loop has done
    counts,         \* detect_rimworld_version: the tally, a dict in insertion order
    detected,       \* detect_rimworld_version: what it returned
    docs,           \* the filesystem: the XML documents, by the path of their file
    scan_roots,     \* build_layer: roots, the scan roots of the layer
    ri,             \* build_layer: how many scan roots the outer loop has taken
    mod_dirs,       \* build_layer: discover_mod_dirs(scan_root) of the current scan root
    mi,             \* build_layer: how many of mod_dirs the loop has taken
    seen_mods,      \* build_layer: seen_mods
    items,          \* build_layer: items
    scans,          \* the mod roots whose files were enumerated, in order
    skips,          \* the mod roots skipped as already seen, in order
    visited,        \* the (mod root, file) pairs the loop over xml_files has taken, in order
    member,         \* infer_member_kind: its argument, member_elem
    inferred,       \* infer_member_kind: what it returned
    cfg,            \* the configuration file: the scan roots of each layer
    requests,       \* how many rebuild requests the callers have yet to make
    jobs,           \* the _Job objects made so far, in order; a job id is its place in the list
    current_job,    \* helper._current_job: a job id, 0 for None
    sys_stdout,     \* sys.stdout: the job id whose _Writer it is, 0 for the process's own stream
    out_files,      \* the output directory: the content of each file written
    console,        \* the job ids whose output reached the process's own stream
    returned        \* what the last start_job call returned, and whether it made the job

rootVars == <<mod_roots, fed, lastAdd>>
fsVars == <<dirs, abouts, files>>
discVars == <<scan_root, pendingAbout, pendingDefs, result>>
walkVars == <<base_dir, prune, wstack, xml_files>>
extVars == <<doc, yielded, elem, def_name>>
metaVars == <<meta, kept>>
verVars == <<vfiles, official_roots, vi, counts, detected>>
buildVars == <<docs, scan_roots, ri, mod_dirs, mi, seen_mods, items, scans, skips, visited>>
kindVars == <<member, inferred>>
jobVars == <<cfg, requests, jobs, current_job, sys_stdout, out_files, console, returned>>

vars == <<pc, rootVars, fsVars, discVars, walkVars, extVars, metaVars, verVars, buildVars, kindVars, jobVars>>

\* What the operations of one part leave alone in the other parts.
offRoots == <<pc, fsVars, discVars, walkVars, extVars, metaVars, verVars, buildVars, kindVars, jobVars>>
offFs == <<pc, rootVars, discVars, walkVars, extVars, metaVars, verVars, buildVars, kindVars, jobVars>>
offDisc == <<fed, lastAdd, fsVars, walkVars, extVars, metaVars, verVars, buildVars, kindVars, jobVars>>
offWalk == <<rootVars, fsVars, discVars, extVars, metaVars, verVars, buildVars, kindVars, jobVars>>
offExt == <<rootVars, fsVars, discVars, walkVars, metaVars, verVars, buildVars, kindVars, jobVars>>
offMeta == <<pc, rootVars, fsVars, discVars, walkVars, extVars, verVars, buildVars, kindVars, jobVars>>
offVer == <<rootVars, fsVars, discVars, walkVars, extVars, metaVars, buildVars, kindVars, jobVars>>
offBuild == <<rootVars, fsVars, discVars, extVars, verVars, kindVars, jobVars>>
offKind == <<rootVars, fsVars, discVars, walkVars, extVars, metaVars, verVars, buildVars, jobVars>>
offJob == <<rootVars, fsVars, discVars, walkVars, extVars, metaVars, verVars, buildVars, kindVars>>

\* ---------------------------------------------------------------- bounds

\* Longest path (in segments) handed to add_mod_root.
MaxDepth == 2
\* Most distinct candidates handed to add_mod_root in one run.
MaxAdds == 3

\* ---------------------------------------------------------------- paths

\* Directory names of the candidate universe; LinkName is a symbolic link in
\* the filesystem root that points at LinkTarget.
DirNames == {"a", "b"}
LinkName == "l"
LinkTarget == <<"a">>

RECURSIVE SeqsUpTo(_, _)
SeqsUpTo(S, n) ==
    IF n = 0 THEN {<<>>}
    ELSE LET shorter == SeqsUpTo(S, n - 1)
         IN  shorter \cup {Append(p, x) : p \in {q \in shorter : Len(q) = n - 1}, x \in S}

\* Every path a caller may hand in: the link may be any segment's name, and
\* is a link only as the first one.
RawPaths == SeqsUpTo(DirNames \cup {LinkName}, MaxDepth)

IsPrefix(a, p) == Len(a) <= Len(p) /\ SubSeq(p, 1, Len(a)) = a

\* Path.resolve(): the symbolic link replaced by what it points at.
Resolve(p) ==
    IF p # <<>> /\ Head(p) = LinkName THEN LinkTarget \o Tail(p) ELSE p

\* is_within(child, ancestor): child.resolve().relative_to(ancestor.resolve())
\* succeeds, which it does for equal paths too.
IsWithinStrict(child, ancestor) ==
    Resolve(ancestor) # Resolve(child) /\ IsPrefix(Resolve(ancestor), Resolve(child))

is_within(child, ancestor) == IsPrefix(Resolve(ancestor), Resolve(child))

\* ---------------------------------------------------------------- add_mod_root

\* add_mod_root without the removal of the roots the candidate contains.
AddNoRemove(roots, candidate) ==
    LET c == Resolve(candidate)
    IN  IF \E r \in roots : is_within(c, r) THEN roots ELSE roots \cup {c}

\* add_mod_root where a contained candidate replaces nothing but is added.
AddNoDiscard(roots, candidate) ==
    LET c == Resolve(candidate)
    IN  (roots \ {r \in roots : is_within(r, c)}) \cup {c}

\* add_mod_root(mod_roots, candidate): the set after the call.  The loop
\* returns before any mutation when an existing root contains the candidate;
\* otherwise the roots inside the candidate are removed and it is added.
AddModRootSet(roots, candidate) ==
    LET c == Resolve(candidate)
    IN  IF \E r \in roots : is_within(c, r)
        THEN roots
        ELSE (roots \ {r \in roots : is_within(r, c)}) \cup {c}

AddOutcome(roots, candidate) ==
    LET c == Resolve(candidate)
    IN  IF \E r \in roots : is_within(c, r) THEN "dominated"
        ELSE IF \E r \in roots : is_within(r, c) THEN "replaced"
        ELSE "added"

RootsStart ==
    /\ mod_roots = {}
    /\ fed = {}
    /\ lastAdd = "none"

FsStart ==
    /\ dirs = {<<>>}
    /\ abouts = {}
    /\ files = {}

WalkStart ==
    /\ base_dir = <<>>
    /\ prune = {}
    /\ wstack = <<>>
    /\ xml_files = <<>>

\* A text is a sequence of tokens, a blank being one of them; None is the
\* absent text or attribute.
None == <<"None">>

ExtStart ==
    /\ doc = [ok |-> FALSE, root |-> <<>>, children |-> <<>>]
    /\ yielded = <<>>
    /\ elem = [Name |-> None, kids |-> <<>>]
    /\ def_name = None

\* The names of the registry's keys in the model.
DefTypeNames == {<<"Thing", "Def">>, <<"RulePack", "Def">>}
MemberNames == {"statBases", "label"}

\* meta = {"defTypes": {}}: nothing registered, no member recorded.
MetaStart ==
    /\ meta = [defTypes |-> {}, kind |-> [k \in DefTypeNames \X MemberNames |-> "none"]]
    /\ kept = FALSE

VerStart ==
    /\ vfiles = <<>>
    /\ official_roots = <<>>
    /\ vi = 0
    /\ counts = <<>>
    /\ detected = None

BuildStart ==
    /\ docs = <<>>
    /\ scan_roots = <<>>
    /\ ri = 0
    /\ mod_dirs = <<>>
    /\ mi = 0
    /\ seen_mods = {}
    /\ items = <<>>
    /\ scans = <<>>
    /\ skips = <<>>
    /\ visited = <<>>

KindStart ==
    /\ member = [tag |-> <<>>, children |-> <<>>]
    /\ inferred = "none"

\* The process's own standard output, where a job id names a job's _Writer.
OrigOut == 0

JobStart ==
    /\ cfg = <<>>
    /\ requests = 0
    /\ jobs = <<>>
    /\ current_job = 0
    /\ sys_stdout = OrigOut
    /\ out_files = <<>>
    /\ console = {}
    /\ returned = [job |-> 0, made |-> FALSE]

DiscStart ==
    /\ scan_root = <<>>
    /\ pendingAbout = {}
    /\ pendingDefs = {}
    /\ result = <<>>

InitRoots == pc = "setup" /\ RootsStart /\ FsStart /\ DiscStart /\ WalkStart /\ ExtStart /\ MetaStart /\ VerStart /\ BuildStart /\ KindStart /\ JobStart

add_mod_root ==
    \E c \in RawPaths :
        /\ Cardinality(fed \cup {c}) <= MaxAdds
        /\ mod_roots' = AddModRootSet(mod_roots, c)
        /\ lastAdd' = AddOutcome(mod_roots, c)
        /\ fed' = fed \cup {c}
        /\ UNCHANGED offRoots

NextRoots == add_mod_root

SpecRoots == InitRoots /\ [][NextRoots]_vars

\* ---------------------------------------------------------------- claims

\* C1: after any sequence of add_mod_root calls from the empty set, no two
\* distinct entries of the mod-root set are ancestor and descendant.
NoNestedRoots ==
    \A r1 \in mod_roots : \A r2 \in mod_roots :
        r1 # r2 => ~IsPrefix(r1, r2)

\* A root was replaced by an ancestor added after it.
WitnessNoNestedRoots ==
    /\ lastAdd = "replaced"
    /\ \E c1 \in fed : \E c2 \in fed : IsWithinStrict(c1, c2)
    /\ mod_roots # {}

\* The candidates, as resolved directories, that no other candidate strictly contains.
Topmost(cands) ==
    {Resolve(c) : c \in {x \in cands : ~\E y \in cands : IsWithinStrict(x, y)}}

\* C2: whatever the order of the add_mod_root calls, the set is exactly the
\* candidates (as resolved directories) not strictly inside another candidate.
RootsAreTopmost == mod_roots = Topmost(fed)

\* A nested candidate was discarded: its ancestor had been added before it.
WitnessRootsAreTopmost ==
    /\ lastAdd = "dominated"
    /\ \E c1 \in fed : \E c2 \in fed :
          IsWithinStrict(c1, c2) /\ Resolve(c2) \in mod_roots /\ Resolve(c1) \notin mod_roots
\* ---------------------------------------------------------------- filesystem

\* Most directories (besides the root) and plain files named Defs in the tree.
MaxFsEntries == 3
\* Most directories holding About/About.xml.
MaxAnchors == 2

DefsName == "Defs"
FsNames == DirNames \cup {DefsName}
FsPaths == SeqsUpTo(FsNames, MaxDepth)

Parent(p) == IF p = <<>> THEN p ELSE SubSeq(p, 1, Len(p) - 1)
Last(p) == p[Len(p)]

\* Path.exists() / Path.is_dir() of a path as the caller wrote it.
Exists(p) == Resolve(p) \in dirs \/ Resolve(p) \in files
IsDir(p) == Resolve(p) \in dirs

\* str.lower() on the names of the model.
LowerOf(n) ==
    CASE n = "Defs" -> "defs"
      [] n = "Languages" -> "languages"
      [] n = "LANGUAGES" -> "languages"
      [] n = "A" -> "a"
      [] n = "About" -> "about"
      [] n = "About.xml" -> "about.xml"
      [] n = "Y.XML" -> "y.xml"
      [] OTHER -> n

\* The order of the lower-cased names as strings.
LowerOrder == <<"a", "b", "defs", "l", "languages">>
LowerRank(n) == CHOOSE i \in 1..Len(LowerOrder) : LowerOrder[i] = LowerOf(n)

\* p.as_posix().lower() < q.as_posix().lower(): the separator sorts before
\* every character of a name, so the strings compare segment by segment.
KeyLess(p, q) ==
    \E i \in 1..(Len(p) + 1) :
        /\ i <= Len(q)
        /\ \A j \in 1..(i - 1) : LowerRank(p[j]) = LowerRank(q[j])
        /\ (i = Len(p) + 1 \/ LowerRank(p[i]) < LowerRank(q[i]))

\* sorted(S, key=lambda p: p.as_posix().lower()): a set has no order of its
\* own, so paths with equal keys come out in either order.
SortedSeqs(S) ==
    LET n == Cardinality(S)
    IN  {s \in [1..n -> S] :
            /\ \A i \in 1..n : \A j \in 1..n : i < j => s[i] # s[j] /\ ~KeyLess(s[j], s[i])}

\* The tree is laid out before the program runs: a directory is made,
Mkdir(p) ==
    /\ pc = "setup"
    /\ p \notin dirs \cup files
    /\ Parent(p) \in dirs
    /\ Cardinality(dirs) + Cardinality(files) <= MaxFsEntries
    /\ dirs' = dirs \cup {p}
    /\ UNCHANGED <<abouts, files, offFs>>

\* a package gets its About/About.xml,
MkAbout ==
    \E d \in dirs \ abouts :
        /\ pc = "setup"
        /\ Cardinality(abouts) < MaxAnchors
        /\ abouts' = abouts \cup {d}
        /\ UNCHANGED <<dirs, files, offFs>>

\* a plain file is written.
MkFile(f) ==
    /\ pc = "setup"
    /\ f \notin dirs \cup files
    /\ Parent(f) \in dirs
    /\ Cardinality(dirs) + Cardinality(files) <= MaxFsEntries
    /\ files' = files \cup {f}
    /\ UNCHANGED <<dirs, abouts, offFs>>

\* A plain file named Defs, which rglob("Defs") finds too.
DefsFilePaths == {Append(d, DefsName) : d \in {q \in FsPaths : Len(q) < MaxDepth}}

\* ---------------------------------------------------------------- discover_mod_dirs

\* A real path under the scan root, as rglob spells it: below the path the
\* caller gave.
AsFound(sr, real) == sr \o SubSeq(real, Len(Resolve(sr)) + 1, Len(real))

\* nearest_about_root(start_dir, scan_root), from cur = start_dir.resolve():
\* the set holding the directory returned, empty for None.
RECURSIVE NearestFrom(_, _)
NearestFrom(cur, limit) ==
    IF cur \in abouts THEN {cur}
    ELSE IF cur = limit \/ Parent(cur) = cur THEN {}
    ELSE NearestFrom(Parent(cur), limit)

nearest_about_root(start_dir, sr) == NearestFrom(Resolve(start_dir), Resolve(sr))

\* about_ancestor or defs_dir.parent
DefsCandidate(defs_dir, sr) ==
    LET near == nearest_about_root(Parent(defs_dir), sr)
    IN  IF near # {} THEN CHOOSE d \in near : TRUE ELSE Parent(defs_dir)

\* The first loop's pattern matched only below the scan root's subdirectories.
AboutsFoundBelow(sr) ==
    {AsFound(sr, d) : d \in {x \in abouts : x # Resolve(sr) /\ IsPrefix(Resolve(sr), x)}}

\* The directories about_xml.parent.parent of scan_root.rglob("About/About.xml").
AboutsFound(sr) ==
    {AsFound(sr, d) : d \in {x \in abouts : IsPrefix(Resolve(sr), x)}}

\* scan_root.rglob("Defs"): every entry of that name below the scan root.
DefsFound(sr) ==
    {AsFound(sr, p) : p \in {x \in dirs \cup files :
        x # Resolve(sr) /\ IsPrefix(Resolve(sr), x) /\ Last(x) = DefsName}}

StartDiscover ==
    \E sr \in FsPaths \cup {<<LinkName>>} :
        /\ pc = "setup"
        /\ scan_root' = sr
        /\ mod_roots' = {}
        /\ IF ~Exists(sr)
           THEN /\ pc' = "done"
                /\ result' = <<>>
                /\ UNCHANGED <<pendingAbout, pendingDefs>>
           ELSE /\ pc' = "scan"
                /\ pendingAbout' = AboutsFound(sr)
                /\ pendingDefs' = DefsFound(sr)
                /\ UNCHANGED result
        /\ UNCHANGED offDisc

\* One turn of the first loop.
DiscoverAbout ==
    \E c \in pendingAbout :
        /\ pc = "scan"
        /\ mod_roots' = AddModRootSet(mod_roots, c)
        /\ pendingAbout' = pendingAbout \ {c}
        /\ UNCHANGED <<scan_root, pc, pendingDefs, result, offDisc>>

\* One turn of the second loop, which starts when the first is over.
DiscoverDefs ==
    \E defs_dir \in pendingDefs :
        /\ pc = "scan"
        /\ pendingAbout = {}
        /\ mod_roots' = IF IsDir(defs_dir)
                        THEN AddModRootSet(mod_roots, DefsCandidate(defs_dir, scan_root))
                        ELSE mod_roots
        /\ pendingDefs' = pendingDefs \ {defs_dir}
        /\ UNCHANGED <<scan_root, pc, pendingAbout, result, offDisc>>

DiscoverReturn ==
    /\ pc = "scan"
    /\ pendingAbout = {}
    /\ pendingDefs = {}
    /\ \E s \in SortedSeqs(mod_roots) : result' = s
    /\ pc' = "done"
    /\ UNCHANGED <<mod_roots, scan_root, pendingAbout, pendingDefs, offDisc>>

InitDiscover == pc = "setup" /\ RootsStart /\ FsStart /\ DiscStart /\ WalkStart /\ ExtStart /\ MetaStart /\ VerStart /\ BuildStart /\ KindStart /\ JobStart

NextDiscover ==
    \/ \E p \in FsPaths : Mkdir(p)
    \/ MkAbout
    \/ \E f \in DefsFilePaths : MkFile(f)
    \/ StartDiscover
    \/ DiscoverAbout
    \/ DiscoverDefs
    \/ DiscoverReturn

SpecDiscover == InitDiscover /\ [][NextDiscover]_vars

\* The anchored packages of the scan root, and its Defs directories.
Anchors == {d \in abouts : IsPrefix(Resolve(scan_root), d)}
DefsDirs ==
    {x \in dirs : x # Resolve(scan_root) /\ IsPrefix(Resolve(scan_root), x) /\ Last(x) = DefsName}

NonOverlapping == \A p \in Anchors : \A q \in Anchors : p # q => ~IsPrefix(p, q)

\* Every Defs directory lies inside (strictly below) one of the packages.
DefsInsidePackages ==
    \A x \in DefsDirs : \E p \in Anchors : p # x /\ IsPrefix(p, x)

SeqRange(s) == {s[i] : i \in 1..Len(s)}

\* C3: for a scan root holding N non-overlapping anchored packages whose
\* Defs directories all lie inside those packages, discover_mod_dirs returns
\* exactly N mod roots, the anchor directories.
DiscoverYieldsAnchors ==
    (pc = "done" /\ Exists(scan_root) /\ NonOverlapping /\ DefsInsidePackages)
        => (Len(result) = Cardinality(Anchors) /\ SeqRange(result) = Anchors)

\* Two packages side by side, one with a Defs directory inside it, scanned.
WitnessDiscoverYieldsAnchors ==
    /\ pc = "done"
    /\ Exists(scan_root)
    /\ NonOverlapping
    /\ DefsInsidePackages
    /\ Cardinality(Anchors) = 2
    /\ DefsDirs # {}
    /\ Len(result) = 2
\* ---------------------------------------------------------------- iter_xml_files_pruned

\* Names of the trees that are walked: a prunable name in two spellings and
\* one that is not pruned by default; files with and without the extension.
WalkNames == {"a", "Languages", "LANGUAGES"}
WalkPaths == SeqsUpTo(WalkNames, MaxDepth)
WalkFileNames == {"x.xml", "Y.XML", "n.txt"}
WalkFilePaths == {Append(d, n) : d \in WalkPaths, n \in WalkFileNames}
\* The prune sets handed in: lower-cased names, as main() builds them.
PruneSets == {{}, {"languages"}, {"a"}, {"languages", "a"}}

\* s.endswith(".xml") on the lower-cased file names of the model.
EndsWithXml(s) == s \in {"x.xml", "y.xml", "about.xml"}

\* Every order in which a directory listing may name the entries S.
Orderings(S) ==
    LET n == Cardinality(S)
    IN  {s \in [1..n -> S] : \A i \in 1..n : \A j \in 1..n : i # j => s[i] # s[j]}

\* Every directory and file of the tree: a package's About directory and
\* its About.xml, and the XML documents, are entries like the others.
AboutName == "About"
AboutXml == "About.xml"
AllDirs == dirs \cup {Append(d, AboutName) : d \in abouts}
AllFiles == files \cup DOMAIN docs \cup {d \o <<AboutName, AboutXml>> : d \in abouts}

SubDirs(root) == {d \in AllDirs : d # root /\ Parent(d) = root}
FilesIn(root) == {f \in AllFiles : Parent(f) = root}

\* The filter that compares the name as spelt.
KeptAsSpelt(root, pr) == {d \in SubDirs(root) : Last(d) \notin pr}

\* dirnames[:] = [d for d in dirnames if d.lower() not in prune_dirs_lower]
KeptDirs(root, pr) == {d \in SubDirs(root) : LowerOf(Last(d)) \notin pr}

\* The files of one directory that are yielded.
XmlIn(root) == {f \in FilesIn(root) : EndsWithXml(LowerOf(Last(f)))}

\* The call: base_dir is resolved and os.walk starts there; a base that is
\* no directory is walked as an empty tree.
StartWalk ==
    \E b \in WalkPaths \cup {<<LinkName>>} : \E pr \in PruneSets :
        /\ pc = "setup"
        /\ pc' = "walk"
        /\ base_dir' = Resolve(b)
        /\ prune' = pr
        /\ wstack' = IF IsDir(b) THEN <<Resolve(b)>> ELSE <<>>
        /\ xml_files' = <<>>
        /\ UNCHANGED offWalk

\* One turn of the loop over os.walk: the next directory's subdirectories are
\* filtered in place, its XML files are yielded in the listing's order, and
\* os.walk goes on into the subdirectories that were kept.
WalkDir ==
    /\ pc = "walk"
    /\ wstack # <<>>
    /\ LET root == Head(wstack)
       IN  \E fo \in Orderings(XmlIn(root)) : \E so \in Orderings(KeptDirs(root, prune)) :
              /\ xml_files' = xml_files \o fo
              /\ wstack' = so \o Tail(wstack)
    /\ UNCHANGED <<pc, base_dir, prune, offWalk>>

WalkEnd ==
    /\ pc = "walk"
    /\ wstack = <<>>
    /\ pc' = "walked"
    /\ UNCHANGED <<walkVars, offWalk>>

InitWalk == pc = "setup" /\ RootsStart /\ FsStart /\ DiscStart /\ WalkStart /\ ExtStart /\ MetaStart /\ VerStart /\ BuildStart /\ KindStart /\ JobStart

NextWalk ==
    \/ \E p \in WalkPaths : Mkdir(p)
    \/ \E f \in WalkFilePaths : MkFile(f)
    \/ StartWalk
    \/ WalkDir
    \/ WalkEnd

SpecWalk == InitWalk /\ [][NextWalk]_vars

\* C4 as stated: with "languages" in the prune set no yielded path has a
\* segment of that name in any letter case, and no yielded file lies under a
\* directory whose name matches a prune-set entry.
NoPrunedSegmentAnywhere ==
    \A i \in 1..Len(xml_files) :
        LET f == xml_files[i]
        IN  /\ "languages" \in prune => \A k \in 1..Len(f) : LowerOf(f[k]) # "languages"
            /\ \A k \in 1..(Len(f) - 1) : LowerOf(f[k]) \notin prune

\* C4: below the mod root that is walked, no yielded path has a segment named
\* "languages" in any letter case when that name is in the prune set, and no
\* yielded file lies under a directory whose name matches a prune-set entry.
NoPrunedSegmentBelowRoot ==
    \A i \in 1..Len(xml_files) :
        LET f == xml_files[i]
        IN  /\ "languages" \in prune =>
                \A k \in (Len(base_dir) + 1)..Len(f) : LowerOf(f[k]) # "languages"
            /\ \A k \in (Len(base_dir) + 1)..(Len(f) - 1) : LowerOf(f[k]) \notin prune

\* A walk that yielded a file and left out a subtree named in another case.
WitnessNoPrunedSegmentBelowRoot ==
    /\ pc = "walked"
    /\ "languages" \in prune
    /\ xml_files # <<>>
    /\ \E d \in dirs : \E f \in files :
          /\ IsPrefix(base_dir, d) /\ d # base_dir
          /\ Last(d) \in {"Languages", "LANGUAGES"}
          /\ Parent(f) = d
          /\ EndsWithXml(LowerOf(Last(f)))
\* ---------------------------------------------------------------- iter_def_elements

\* Most children of a document's root.
MaxChildren == 3

\* A tag is a sequence of tokens that spell it; a tag in a namespace starts
\* with "{", the namespace and "}".  No token ends in another's beginning, so
\* a tag ends with "Def" exactly when its last token is "Def", and so on.
DefsTag == <<"Def", "s">>
Tags ==
    { DefsTag,
      <<"Def">>,
      <<"Thing", "Def">>,
      <<"Thing", "Def", "Base">>,
      <<"RulePack", "Def">>,
      <<"Thing">>,
      <<"Def", "Thing">>,
      <<"{", "u", "}", "Def", "s">>,
      <<"{", "u", "}", "Thing", "Def">> }

EndsWith(t, suffix) ==
    Len(t) >= Len(suffix) /\ SubSeq(t, Len(t) - Len(suffix) + 1, Len(t)) = suffix

RECURSIVE AfterBrace(_)
AfterBrace(t) ==
    IF t = <<>> THEN <<>> ELSE IF Head(t) = "}" THEN Tail(t) ELSE AfterBrace(Tail(t))

\* The tag as it is, namespace and all.
KeepNs(tag) == tag

\* _strip_ns(tag): tag.split("}", 1)[1] when the tag starts with "{".
StripNs(tag) == IF tag # <<>> /\ Head(tag) = "{" THEN AfterBrace(tag) ELSE tag

\* looks_like_def_tag(tag)
looks_like_def_tag(tag) ==
    LET t == StripNs(tag)
    IN  \/ EndsWith(t, <<"Def">>)
        \/ EndsWith(t, <<"Def", "Base">>)
        \/ EndsWith(t, <<"RulePack", "Def">>)

RECURSIVE DefChildrenFrom(_, _)
DefChildrenFrom(children, i) ==
    IF i > Len(children) THEN <<>>
    ELSE (IF looks_like_def_tag(children[i]) THEN <<i>> ELSE <<>>)
            \o DefChildrenFrom(children, i + 1)

\* What iter_def_elements yields for a parsed document: under a <Defs> root
\* the children that look like Defs, in document order; else the root (0) if
\* it looks like a Def.
IterDefs(d) ==
    IF StripNs(d.root) = DefsTag
    THEN DefChildrenFrom(d.children, 1)
    ELSE IF looks_like_def_tag(d.root) THEN <<0>> ELSE <<>>

Docs ==
    {[ok |-> o, root |-> r, children |-> c] :
        o \in BOOLEAN, r \in Tags, c \in UNION {[1..n -> Tags] : n \in 0..MaxChildren}}

\* The whole generator run on one document: ET.parse failing raises
\* RuntimeError at the first step, and nothing is yielded.
iter_def_elements ==
    /\ pc = "setup"
    /\ IF doc.ok
       THEN pc' = "iterated" /\ yielded' = IterDefs(doc)
       ELSE pc' = "raised" /\ yielded' = <<>>
    /\ UNCHANGED <<doc, elem, def_name, offExt>>

InitIter ==
    /\ pc = "setup" /\ RootsStart /\ FsStart /\ DiscStart /\ WalkStart /\ MetaStart /\ VerStart /\ BuildStart /\ KindStart /\ JobStart
    /\ doc \in Docs
    /\ yielded = <<>>
    /\ elem = [Name |-> None, kids |-> <<>>]
    /\ def_name = None

NextIter == iter_def_elements

SpecIter == InitIter /\ [][NextIter]_vars

\* The tag without its namespace, and the naming convention, as the
\* specification words them.
LocalTag(tag) ==
    IF \E i \in 1..Len(tag) : tag[i] = "}"
    THEN SubSeq(tag, (CHOOSE i \in 1..Len(tag) : tag[i] = "}") + 1, Len(tag))
    ELSE tag
DefLike(tag) ==
    LET t == LocalTag(tag)
    IN  t # <<>> /\ (t[Len(t)] = "Def" \/ (Len(t) >= 2 /\ t[Len(t) - 1] = "Def" /\ t[Len(t)] = "Base"))

\* C5: for every parsed document iter_def_elements yields, under a root whose
\* local tag is Defs, exactly the direct children whose local tag ends with
\* Def, DefBase or RulePackDef, in document order; otherwise exactly the root
\* if its tag matches; otherwise nothing, and no error.
YieldsDefLikeOnly ==
    (pc # "setup" /\ doc.ok) =>
        /\ pc = "iterated"
        /\ IF LocalTag(doc.root) = DefsTag
           THEN /\ SeqRange(yielded) = {i \in 1..Len(doc.children) : DefLike(doc.children[i])}
                /\ \A i \in 1..Len(yielded) : \A j \in 1..Len(yielded) :
                      i < j => yielded[i] < yielded[j]
           ELSE IF DefLike(doc.root) THEN yielded = <<0>> ELSE yielded = <<>>

\* A container in a namespace with two Def children around one that is none.
WitnessYieldsDefLikeOnly ==
    /\ pc = "iterated"
    /\ doc.root = <<"{", "u", "}", "Def", "s">>
    /\ Len(doc.children) = 3
    /\ yielded = <<1, 3>>

\* ---------------------------------------------------------------- extract_def_name

\* Most children of a definition element.
MaxKids == 2

Blank == " "
Texts == {<<>>, <<Blank>>, <<"Bar">>, <<"Gun_Bolt">>, <<Blank, "Gun_Bolt", Blank>>}
KidTags == {<<"defName">>, <<"label">>, <<"{", "u", "}", "defName">>}
Kids == {[tag |-> t, text |-> x] : t \in KidTags, x \in Texts \cup {None}}
Elems ==
    {[Name |-> a, kids |-> k] :
        a \in Texts \cup {None}, k \in UNION {[1..n -> Kids] : n \in 0..MaxKids}}

\* str.strip()
RECURSIVE LStrip(_)
LStrip(t) == IF t # <<>> /\ Head(t) = Blank THEN LStrip(Tail(t)) ELSE t
RECURSIVE RStrip(_)
RStrip(t) ==
    IF t # <<>> /\ t[Len(t)] = Blank THEN RStrip(SubSeq(t, 1, Len(t) - 1)) ELSE t
Strip(t) == RStrip(LStrip(t))

\* What elem.find returns when no child has the tag.
NoKid == [tag |-> <<>>, text |-> None]

\* elem.find(tag): the first child of that very tag, NoKid when there is none.
Find(e, tag) ==
    IF \E i \in 1..Len(e.kids) : e.kids[i].tag = tag
    THEN e.kids[CHOOSE i \in 1..Len(e.kids) :
            e.kids[i].tag = tag /\ \A j \in 1..(i - 1) : e.kids[j].tag # tag]
    ELSE NoKid

\* first_text(el)
first_text(el) ==
    IF el = NoKid THEN None
    ELSE IF el.text = None THEN None
    ELSE IF Strip(el.text) # <<>> THEN Strip(el.text) ELSE None

\* extract_def_name that returns whatever the defName child holds.
ExtractNoFallThrough(e) ==
    LET dn == Find(e, <<"defName">>)
    IN  IF dn # NoKid /\ dn.text # None THEN Strip(dn.text)
        ELSE IF e.Name # None /\ Strip(e.Name) # <<>> THEN Strip(e.Name) ELSE None

\* extract_def_name(elem)
extract_def_name(e) ==
    LET dn == first_text(Find(e, <<"defName">>))
    IN  IF dn # None THEN dn
        ELSE IF e.Name # None /\ e.Name # <<>> /\ Strip(e.Name) # <<>> THEN Strip(e.Name)
        ELSE None

\* build_layer: def_name = extract_def_name(def_elem) or ""
ExtractName ==
    /\ pc = "setup"
    /\ pc' = "named"
    /\ def_name' = IF extract_def_name(elem) = None THEN <<>> ELSE extract_def_name(elem)
    /\ UNCHANGED <<doc, yielded, elem, offExt>>

InitName ==
    /\ pc = "setup" /\ RootsStart /\ FsStart /\ DiscStart /\ WalkStart /\ MetaStart /\ VerStart /\ BuildStart /\ KindStart /\ JobStart
    /\ doc = [ok |-> FALSE, root |-> <<>>, children |-> <<>>]
    /\ yielded = <<>>
    /\ elem \in Elems
    /\ def_name = None

NextName == ExtractName

SpecName == InitName /\ [][NextName]_vars

IsBlank(t) == \A i \in 1..Len(t) : t[i] = Blank
HasDefNameChild == \E i \in 1..Len(elem.kids) : elem.kids[i].tag = <<"defName">>
FirstDefNameChild ==
    elem.kids[CHOOSE i \in 1..Len(elem.kids) :
        elem.kids[i].tag = <<"defName">> /\ \A j \in 1..(i - 1) : elem.kids[j].tag # <<"defName">>]
DefNameUsable ==
    HasDefNameChild /\ FirstDefNameChild.text # None /\ ~IsBlank(FirstDefNameChild.text)
NameAttrUsable == elem.Name # None /\ ~IsBlank(elem.Name)

\* C6 as stated: defName is the text of the defName child if present and
\* non-blank, else the value of the Name attribute if present and non-blank,
\* else the empty string.
DefNameIsChildText ==
    pc = "named" =>
        def_name = IF DefNameUsable THEN FirstDefNameChild.text
                   ELSE IF NameAttrUsable THEN elem.Name
                   ELSE <<>>

\* C6: defName is the text of the first defName child, surrounding blanks
\* removed, if that child is present and non-blank; else the Name attribute,
\* surrounding blanks removed, if present and non-blank; else the empty string.
DefNameIsTrimmedText ==
    pc = "named" =>
        def_name = IF DefNameUsable THEN Strip(FirstDefNameChild.text)
                   ELSE IF NameAttrUsable THEN Strip(elem.Name)
                   ELSE <<>>

\* A blank defName child fell through to the Name attribute.
WitnessDefNameIsTrimmedText ==
    /\ pc = "named"
    /\ HasDefNameChild
    /\ FirstDefNameChild.text = <<Blank>>
    /\ elem.Name = <<"Bar">>
    /\ def_name = <<"Bar">>
\* ---------------------------------------------------------------- accumulate_meta

\* Most member children of one definition element.
MaxMembers == 2

\* The tag of a child that is a comment, which is no element name.
CommentTag == "!comment"

\* A child of a member element: its tag, and whether it has a <key> and a
\* <value> child of its own.
Li(k, v) == [tag |-> "li", hasKey |-> k, hasValue |-> v]
Node(t, k, v) == [tag |-> t, hasKey |-> k, hasValue |-> v]

\* The member elements of the model, by their children: one for each way
\* infer_member_kind returns.
MemberShapes ==
    { <<>>,
      <<Li(FALSE, FALSE)>>,
      <<Li(FALSE, FALSE), Li(TRUE, TRUE)>>,
      <<Node("key", FALSE, FALSE), Node("value", FALSE, FALSE)>>,
      <<Li(FALSE, FALSE), Node("x", TRUE, TRUE)>>,
      <<Node("x", FALSE, FALSE)>> }

MemberTags == {<<"statBases">>, <<"{", "u", "}", "label">>}
Members == {[tag |-> t, children |-> c] : t \in MemberTags, c \in MemberShapes}
DefElems == UNION {[1..n -> Members] : n \in 0..MaxMembers}

\* An all-li member is a List whatever its items carry.
InferLiAlwaysList(m) ==
    LET ch == SelectSeq(m.children, LAMBDA c : c.tag # CommentTag)
        idx == 1..Len(ch)
    IN  IF ch = <<>> THEN "Scalar"
        ELSE IF \A i \in idx : ch[i].tag = "li" THEN "List"
        ELSE IF (\E i \in idx : ch[i].tag = "key") /\ (\E i \in idx : ch[i].tag = "value")
             THEN "Map"
        ELSE IF \E i \in idx : ch[i].hasKey /\ ch[i].hasValue THEN "Map"
        ELSE "Class"

\* isinstance(ch.tag, str): a comment or a processing instruction is a child
\* whose tag is no string.
IsElement(c) == c.tag # CommentTag

\* infer_member_kind(member_elem)
infer_member_kind(m) ==
    LET ch == SelectSeq(m.children, IsElement)
        idx == 1..Len(ch)
    IN  IF ch = <<>> THEN "Scalar"
        ELSE IF \A i \in idx : ch[i].tag = "li"
             THEN IF \E i \in idx : ch[i].hasKey /\ ch[i].hasValue THEN "Map" ELSE "List"
        ELSE IF (\E i \in idx : ch[i].tag = "key") /\ (\E i \in idx : ch[i].tag = "value")
             THEN "Map"
        ELSE IF \E i \in idx : ch[i].hasKey /\ ch[i].hasValue THEN "Map"
        ELSE "Class"

\* order = {"Scalar": 0, "List": 1, "Map": 2, "Class": 3}; order.get(kind, 0)
KindOrder(kind) ==
    CASE kind = "Scalar" -> 0
      [] kind = "List" -> 1
      [] kind = "Map" -> 2
      [] kind = "Class" -> 3
      [] OTHER -> 0

\* The merge that keeps the kind seen first.
MergeFirstWins(prior, kind) == IF prior # "none" THEN prior ELSE kind

\* The merge that records the kind seen last.
MergeLastWins(prior, kind) == kind

\* The merge of one observation into members[name]: a new name is recorded,
\* an existing one is overwritten only by a kind of higher order.
MergeKind(prior, kind) ==
    IF prior # "none"
    THEN IF KindOrder(kind) > KindOrder(prior) THEN kind ELSE prior
    ELSE kind

\* The loop of accumulate_meta over the children of elem, from the i-th on:
\* kinds is members of meta["defTypes"][def_type].
RECURSIVE AccumulateFrom(_, _, _, _)
AccumulateFrom(kinds, def_type, e, i) ==
    IF i > Len(e) THEN kinds
    ELSE LET name == Head(StripNs(e[i].tag))
             key == <<def_type, name>>
         IN  AccumulateFrom(
                [kinds EXCEPT ![key] = MergeKind(kinds[key], infer_member_kind(e[i]))],
                def_type, e, i + 1)

\* Whether some child's observed kind ranked below the kind on record.
RECURSIVE KeptFrom(_, _, _, _)
KeptFrom(kinds, def_type, e, i) ==
    IF i > Len(e) THEN FALSE
    ELSE LET name == Head(StripNs(e[i].tag))
             key == <<def_type, name>>
             kind == infer_member_kind(e[i])
         IN  \/ (kinds[key] # "none" /\ KindOrder(kind) < KindOrder(kinds[key]))
             \/ KeptFrom([kinds EXCEPT ![key] = MergeKind(kinds[key], kind)], def_type, e, i + 1)

\* accumulate_meta(meta, def_type, elem)
Accumulated(m, def_type, e) ==
    [defTypes |-> m.defTypes \cup {def_type},
     kind |-> AccumulateFrom(m.kind, def_type, e, 1)]

accumulate_meta(def_type, e) ==
    /\ meta' = Accumulated(meta, def_type, e)
    /\ kept' = KeptFrom(meta.kind, def_type, e, 1)

AccumulateMeta ==
    \E def_type \in DefTypeNames : \E e \in DefElems :
        /\ accumulate_meta(def_type, e)
        /\ UNCHANGED offMeta

InitMeta ==
    /\ pc = "setup" /\ RootsStart /\ FsStart /\ DiscStart /\ WalkStart /\ ExtStart /\ MetaStart /\ VerStart /\ BuildStart /\ KindStart /\ JobStart

NextMeta == AccumulateMeta

SpecMeta == InitMeta /\ [][NextMeta]_vars

\* The total order of the kinds, as the specification gives it.
KindRank(kind) ==
    CASE kind = "Scalar" -> 1 [] kind = "List" -> 2 [] kind = "Map" -> 3 [] kind = "Class" -> 4

\* C7: across any sequence of accumulate_meta calls, the recorded kind of a
\* (defType, member) entry never decreases in the order Scalar < List < Map <
\* Class, and an entry once present is never removed.
KindOnlyMovesUp ==
    [][ /\ meta.defTypes \subseteq meta'.defTypes
        /\ \A k \in DefTypeNames \X MemberNames :
              meta.kind[k] # "none" =>
                  /\ meta'.kind[k] # "none"
                  /\ KindRank(meta'.kind[k]) >= KindRank(meta.kind[k]) ]_vars

\* A member on record as Class was observed again with a lower kind and stayed Class.
WitnessKindOnlyMovesUp ==
    /\ kept
    /\ \E k \in DefTypeNames \X MemberNames : meta.kind[k] = "Class"
\* ---------------------------------------------------------------- detect_rimworld_version

\* Most directories holding a Version.txt, and most paths handed in.
MaxMarkers == 2
MaxRoots == 3

\* The directories that may hold a marker and the paths handed in.
MarkerDirs == {<<>>, <<"a">>, <<"a", "b">>, <<"b">>}
VersionRoots == {<<"a", "b">>, <<"b">>, <<LinkName, "b">>}

\* What a Version.txt is: a text file as its lines, an entry that is no file,
\* or a file that cannot be read.
NotAFile == <<<<"NotAFile">>>>
Unreadable == <<<<"Unreadable">>>>
MarkerContents ==
    { <<<<"1.4">>>>,
      <<<<"1.5">>, <<"1.4">>>>,
      <<<<>>, <<Blank>>, <<Blank, "1.4", Blank>>, <<"1.5">>>>,
      <<<<Blank>>>>,
      NotAFile,
      Unreadable }

HasVersionFile(d) == d \in DOMAIN vfiles /\ vfiles[d] # NotAFile

\* Version.txt appears in a directory before the program runs.
PutMarker ==
    \E d \in MarkerDirs \ DOMAIN vfiles : \E c \in MarkerContents :
        /\ pc = "setup"
        /\ Cardinality(DOMAIN vfiles) < MaxMarkers
        /\ vfiles' = [x \in DOMAIN vfiles \cup {d} |-> IF x = d THEN c ELSE vfiles[x]]
        /\ UNCHANGED <<pc, official_roots, vi, counts, detected, offVer>>

\* _ancestor_with_version_txt(start), from cur = start.resolve(): the set
\* holding the directory returned, empty for None.
RECURSIVE AncestorFrom(_)
AncestorFrom(cur) ==
    IF HasVersionFile(cur) THEN {cur}
    ELSE IF Parent(cur) = cur THEN {}
    ELSE AncestorFrom(Parent(cur))

ancestor_with_version_txt(start) == AncestorFrom(Resolve(start))

\* next((ln.strip() for ln in txt.splitlines() if ln.strip()), "")
RECURSIVE FirstLine(_)
FirstLine(lines) ==
    IF lines = <<>> THEN <<>>
    ELSE IF Strip(Head(lines)) # <<>> THEN Strip(Head(lines))
    ELSE FirstLine(Tail(lines))

\* counts[line] = counts.get(line, 0) + 1 on a dict that keeps insertion order.
Tally(cs, line) ==
    IF \E i \in 1..Len(cs) : cs[i][1] = line
    THEN [i \in 1..Len(cs) |-> IF cs[i][1] = line THEN <<line, cs[i][2] + 1>> ELSE cs[i]]
    ELSE Append(cs, <<line, 1>>)

\* The maximum that keeps the last of several equal counts.
MaxLast(cs) ==
    cs[CHOOSE i \in 1..Len(cs) :
        /\ \A j \in 1..Len(cs) : cs[j][2] <= cs[i][2]
        /\ \A j \in (i + 1)..Len(cs) : cs[j][2] < cs[i][2]][1]

\* max(counts.items(), key=lambda kv: kv[1])[0]: the first item of the
\* largest count.
MaxFirst(cs) ==
    cs[CHOOSE i \in 1..Len(cs) :
        /\ \A j \in 1..Len(cs) : cs[j][2] <= cs[i][2]
        /\ \A j \in 1..(i - 1) : cs[j][2] < cs[i][2]][1]

StartDetect ==
    \E rs \in UNION {[1..n -> VersionRoots] : n \in 0..MaxRoots} :
        /\ pc = "setup"
        /\ pc' = "detect"
        /\ official_roots' = rs
        /\ vi' = 0
        /\ counts' = <<>>
        /\ UNCHANGED <<vfiles, detected, offVer>>

\* One turn of the loop over official_roots.
DetectRoot ==
    /\ pc = "detect"
    /\ vi < Len(official_roots)
    /\ vi' = vi + 1
    /\ LET base == ancestor_with_version_txt(official_roots[vi + 1])
           txt == vfiles[CHOOSE b \in base : TRUE]
       IN  counts' =
              IF base = {} THEN counts
              ELSE IF txt = Unreadable THEN counts
              ELSE IF FirstLine(txt) # <<>> THEN Tally(counts, FirstLine(txt))
              ELSE counts
    /\ UNCHANGED <<pc, vfiles, official_roots, detected, offVer>>

DetectReturn ==
    /\ pc = "detect"
    /\ vi = Len(official_roots)
    /\ pc' = "detected"
    /\ detected' = IF counts = <<>> THEN None ELSE MaxFirst(counts)
    /\ UNCHANGED <<vfiles, official_roots, vi, counts, offVer>>

InitVersion ==
    /\ pc = "setup" /\ RootsStart /\ FsStart /\ DiscStart /\ WalkStart /\ ExtStart /\ MetaStart /\ VerStart /\ BuildStart /\ KindStart /\ JobStart

NextVersion ==
    \/ PutMarker
    \/ StartDetect
    \/ DetectRoot
    \/ DetectReturn

SpecVersion == InitVersion /\ [][NextVersion]_vars

\* The marker file found from a path: the Version.txt file of the nearest
\* directory, from the path itself upward, that has one.
MarkerDirOf(r) ==
    {d \in DOMAIN vfiles :
        /\ IsPrefix(d, Resolve(r))
        /\ HasVersionFile(d)
        /\ \A e \in DOMAIN vfiles :
              (IsPrefix(e, Resolve(r)) /\ HasVersionFile(e)) => Len(e) <= Len(d)}

\* The first non-blank line of a text, blanks around it removed; and that of
\* the marker found from a path: the empty set when there is no marker, it
\* cannot be read, or every line is blank.
FirstNonBlank(lines) ==
    {Strip(lines[i]) : i \in {k \in 1..Len(lines) :
                                /\ ~IsBlank(lines[k])
                                /\ \A j \in 1..(k - 1) : IsBlank(lines[j])}}
VersionLineOf(r) ==
    UNION {FirstNonBlank(vfiles[d]) : d \in {x \in MarkerDirOf(r) : vfiles[x] # Unreadable}}

RootIdx == 1..Len(official_roots)
Occurrences(v) == Cardinality({i \in RootIdx : v \in VersionLineOf(official_roots[i])})
FirstSeen(v) == CHOOSE i \in RootIdx :
    /\ v \in VersionLineOf(official_roots[i])
    /\ \A j \in 1..(i - 1) : v \notin VersionLineOf(official_roots[j])
VersionsSeen == UNION {VersionLineOf(official_roots[i]) : i \in RootIdx}

\* C8: detect_rimworld_version returns the version string that occurs most
\* often among the first non-blank lines of the marker files found from the
\* input paths, the one met first in input order among several of the highest
\* count, and no detection exactly when no path yields a non-blank line.
MostFrequentFirstSeen ==
    pc = "detected" =>
        /\ (detected = None) <=> (VersionsSeen = {})
        /\ detected # None =>
              /\ detected \in VersionsSeen
              /\ \A v \in VersionsSeen :
                    \/ Occurrences(v) < Occurrences(detected)
                    \/ (Occurrences(v) = Occurrences(detected)
                            /\ FirstSeen(detected) <= FirstSeen(v))

\* Two versions tie and the one met first, not the one tallied last, is returned.
WitnessMostFrequentFirstSeen ==
    /\ pc = "detected"
    /\ Len(official_roots) >= 2
    /\ detected # None
    /\ \E v \in VersionsSeen :
          /\ v # detected
          /\ Occurrences(v) = Occurrences(detected)
          /\ FirstSeen(detected) < FirstSeen(v)

\* ---------------------------------------------------------------- build_layer

\* Most XML documents in the tree, and most scan roots of a layer.
MaxDocs == 2
MaxScanRoots == 2

\* The tree of a layer: directories, documents and scan roots are drawn from
\* these paths.
BuildDirPaths == {<<"a">>, <<"b">>}
BuildDocPaths == {<<"a", "x.xml">>, <<"a", "y.xml">>, <<"b", "x.xml">>}
BuildScanRoots == {<<>>, <<"a">>, <<LinkName>>}

\* An element of a document: its tag, its member elements, and what
\* rendering it does: "pretty" when minidom renders it, "compact" when
\* minidom fails and the raw text is returned, "raises" when ET.tostring
\* itself raises (an element nested deeper than the recursion limit).
El(t, ms, r) == [tag |-> t, members |-> ms, render |-> r]
StatList == [tag |-> <<"statBases">>, children |-> <<Li(FALSE, FALSE)>>]
LabelScalar == [tag |-> <<"{", "u", "}", "label">>, children |-> <<>>]

\* The documents of the model: ok is whether ET.parse succeeds; the root is
\* a <Defs> element and the children are its child elements.
BuildDocs ==
    { [ok |-> FALSE, root |-> El(DefsTag, <<>>, "pretty"), children |-> <<>>],
      [ok |-> TRUE, root |-> El(<<"{", "u", "}", "Def", "s">>, <<>>, "pretty"),
       children |-> <<El(<<"Thing", "Def">>, <<StatList>>, "pretty"),
                      El(<<"Thing">>, <<>>, "pretty"),
                      El(<<"{", "u", "}", "Thing", "Def">>, <<LabelScalar>>, "compact")>>],
      [ok |-> TRUE, root |-> El(DefsTag, <<>>, "pretty"),
       children |-> <<El(<<"Thing", "Def">>, <<LabelScalar>>, "pretty"),
                      El(<<"RulePack", "Def">>, <<>>, "raises"),
                      El(<<"Thing", "Def">>, <<StatList>>, "pretty")>>] }

\* An XML document is written into the tree.
WriteDoc(f, d) ==
    /\ pc = "setup"
    /\ f \notin DOMAIN docs
    /\ Parent(f) \in dirs
    /\ Cardinality(DOMAIN docs) < MaxDocs
    /\ docs' = (f :> d) @@ docs
    /\ UNCHANGED <<pc, rootVars, fsVars, discVars, walkVars, extVars, metaVars, verVars, kindVars, jobVars>>
    /\ UNCHANGED <<scan_roots, ri, mod_dirs, mi, seen_mods, items, scans, skips, visited>>

\* add_mod_root called on each candidate in turn.
RECURSIVE AddAll(_, _)
AddAll(rs, cands) ==
    IF cands = <<>> THEN rs ELSE AddAll(AddModRootSet(rs, Head(cands)), Tail(cands))

\* discover_mod_dirs(scan_root) as one call: every list it can return, over
\* the orders in which rglob may name the entries.
discover_mod_dirs(sr) ==
    IF ~Exists(sr) THEN {<<>>}
    ELSE UNION { SortedSeqs(AddAll(AddAll({}, ao),
                                   [i \in DOMAIN do |-> DefsCandidate(do[i], sr)])) :
                    ao \in Orderings(AboutsFound(sr)),
                    do \in Orderings({d \in DefsFound(sr) : IsDir(d)}) }

\* iter_xml_files_pruned(base_dir, prune) as one call: every list of files
\* it can yield, over the orders of the directory listings.
RECURSIVE WalkSeqs(_, _), WalkEach(_, _)
WalkSeqs(root, pr) ==
    {fo \o rest : fo \in Orderings(XmlIn(root)),
                  rest \in UNION {WalkEach(so, pr) : so \in Orderings(KeptDirs(root, pr))}}
WalkEach(so, pr) ==
    IF so = <<>> THEN {<<>>}
    ELSE {a \o b : a \in WalkSeqs(Head(so), pr), b \in WalkEach(Tail(so), pr)}

iter_xml_files_pruned(b, pr) == IF IsDir(b) THEN WalkSeqs(Resolve(b), pr) ELSE {<<>>}

\* xf.name.lower() == "about.xml" and xf.parent.name.lower() == "about"
IsAboutXml(xf) ==
    /\ Len(xf) >= 2
    /\ LowerOf(Last(xf)) = "about.xml"
    /\ LowerOf(Last(Parent(xf))) = "about"

\* The element iter_def_elements names by its index: 0 is the root.
ElemAt(d, i) == IF i = 0 THEN d.root ELSE d.children[i]
YieldedOf(d) ==
    IterDefs([root |-> d.root.tag, children |-> [i \in DOMAIN d.children |-> d.children[i].tag]])

\* The loop body of build_layer over the elements ys that iter_def_elements
\* yields from document xf of mod root m: each element is named, rendered,
\* accumulated into meta and appended to items, until one raises.
RECURSIVE EmitFrom(_, _, _, _, _)
EmitFrom(st, m, xf, d, ys) ==
    IF ys = <<>> THEN st
    ELSE LET e == ElemAt(d, Head(ys))
             def_type == StripNs(e.tag)
             item == [defType |-> def_type, mod |-> m, absPath |-> xf,
                      idx |-> Head(ys), xml |-> e.render]
         IN  IF e.render = "raises"
             THEN [st EXCEPT !.raised = TRUE]
             ELSE EmitFrom([items |-> Append(st.items, item),
                            meta |-> Accumulated(st.meta, def_type, e.members),
                            raised |-> FALSE],
                           m, xf, d, Tail(ys))

\* The test that never finds the mod root.
SeenNever(real, seen) == FALSE
\* real in seen_mods
SeenAlready(real, seen) == real \in seen

\* The loop of build_layer over xml_files, from mod root m: About/About.xml
\* is passed over; a document that does not parse raises before anything is
\* yielded; otherwise its elements are emitted one by one, and an exception
\* ends that document only.  st holds items, meta and the turns taken.
RECURSIVE ScanFiles(_, _, _)
ScanFiles(st, m, xs) ==
    IF xs = <<>> THEN st
    ELSE LET xf == Head(xs)
             turn(o) == Append(st.visited, [mod |-> m, file |-> xf, outcome |-> o])
             next == IF IsAboutXml(xf)
                     THEN [st EXCEPT !.visited = turn("about")]
                     ELSE IF ~docs[xf].ok
                     THEN [st EXCEPT !.visited = turn("error")]
                     ELSE LET r == EmitFrom([items |-> st.items, meta |-> st.meta,
                                             raised |-> FALSE],
                                            m, xf, docs[xf], YieldedOf(docs[xf]))
                          IN  [items |-> r.items, meta |-> r.meta,
                               visited |-> turn(IF r.raised THEN "error" ELSE "ok")]
         IN  ScanFiles(next, m, Tail(xs))

\* The call: items, seen_mods are empty; the prune set is main()'s default.
BeginLayer ==
    \E rs \in UNION {[1..n -> BuildScanRoots] : n \in 0..MaxScanRoots} :
        /\ pc = "setup"
        /\ pc' = "layer"
        /\ scan_roots' = rs
        /\ ri' = 0
        /\ seen_mods' = {}
        /\ items' = <<>>
        /\ prune' = {"languages"}
        /\ UNCHANGED <<docs, mod_dirs, mi, scans, skips, visited>>
        /\ UNCHANGED <<base_dir, wstack, xml_files, metaVars, offBuild>>

\* for scan_root in roots: mod_dirs = discover_mod_dirs(scan_root), once the
\* mod roots of the scan root before are done.
TakeScanRoot ==
    /\ pc = "layer"
    /\ mi = Len(mod_dirs)
    /\ ri < Len(scan_roots)
    /\ ri' = ri + 1
    /\ \E ms \in discover_mod_dirs(scan_roots[ri + 1]) : mod_dirs' = ms
    /\ mi' = 0
    /\ UNCHANGED <<docs, scan_roots, seen_mods, items, scans, skips, visited>>
    /\ UNCHANGED <<pc, walkVars, metaVars, offBuild>>

\* for mod_dir in mod_dirs: a mod root seen before is passed over; a new one
\* is recorded, its XML files are enumerated and each is processed.
TakeMod ==
    /\ pc = "layer"
    /\ mi < Len(mod_dirs)
    /\ mi' = mi + 1
    /\ LET mod_dir == mod_dirs[mi + 1]
           real == Resolve(mod_dir)
       IN  IF SeenAlready(real, seen_mods)
           THEN /\ skips' = Append(skips, real)
                /\ UNCHANGED <<seen_mods, xml_files, scans, items, meta, visited>>
           ELSE /\ seen_mods' = seen_mods \cup {real}
                /\ scans' = Append(scans, real)
                /\ \E xs \in iter_xml_files_pruned(mod_dir, prune) :
                      /\ xml_files' = xs
                      /\ LET st == ScanFiles([items |-> items, meta |-> meta,
                                              visited |-> visited], mod_dir, xs)
                         IN  /\ items' = st.items
                             /\ meta' = st.meta
                             /\ visited' = st.visited
                /\ UNCHANGED skips
    /\ UNCHANGED <<docs, scan_roots, ri, mod_dirs>>
    /\ UNCHANGED <<pc, base_dir, prune, wstack, kept, offBuild>>

\* The loop over roots is over: items is written out and returned.
WriteLayer ==
    /\ pc = "layer"
    /\ mi = Len(mod_dirs)
    /\ ri = Len(scan_roots)
    /\ pc' = "written"
    /\ UNCHANGED <<buildVars, walkVars, metaVars, offBuild>>

InitBuild == pc = "setup" /\ RootsStart /\ FsStart /\ DiscStart /\ WalkStart /\ ExtStart /\ MetaStart /\ VerStart /\ BuildStart /\ KindStart /\ JobStart

NextBuild ==
    \/ \E p \in BuildDirPaths : Mkdir(p)
    \/ MkAbout
    \/ \E f \in BuildDocPaths : \E d \in BuildDocs : WriteDoc(f, d)
    \/ BeginLayer
    \/ TakeScanRoot
    \/ TakeMod
    \/ WriteLayer

SpecBuild == InitBuild /\ [][NextBuild]_vars

\* The records in items that came from file f of mod root m.
ItemsOf(m, f) == {k \in 1..Len(items) : items[k].mod = m /\ items[k].absPath = f}
\* The turns of the loop over xml_files that ended in the error handler.
Failed == {k \in 1..Len(visited) : visited[k].outcome = "error"}
\* The mod roots of the layer: what discovery finds from its scan roots.
LayerMods ==
    UNION {SeqRange(ms) : ms \in UNION {discover_mod_dirs(scan_roots[i]) : i \in 1..Len(scan_roots)}}
\* The candidate documents of mod root m: the XML documents below it with no
\* pruned directory on the way.
CandidateDocs(m) ==
    {f \in DOMAIN docs :
        /\ IsPrefix(m, f)
        /\ \A j \in (Len(m) + 1)..(Len(f) - 1) : LowerOf(f[j]) \notin prune}

\* C9: a document whose processing fails in build_layer contributes no Item
\* Record, and the failure aborts neither the mod nor the layer: every mod
\* root of the layer is scanned, every candidate document of it is taken, and
\* every document that does not fail contributes all its Defs.
FailedDocEmitsNothing ==
    pc = "written" =>
        /\ \A k \in Failed : ItemsOf(visited[k].mod, visited[k].file) = {}
        /\ SeqRange(scans) = LayerMods
        /\ \A m \in LayerMods : \A f \in CandidateDocs(m) :
              \E k \in 1..Len(visited) : visited[k].mod = m /\ visited[k].file = f
        /\ \A k \in 1..Len(visited) :
              visited[k].outcome = "ok" =>
                  Cardinality(ItemsOf(visited[k].mod, visited[k].file))
                      = Len(YieldedOf(docs[visited[k].file]))

\* A document ended in the error handler at its second Def, and the record
\* of its first Def is in the written list.
WitnessFailedDocEmitted ==
    /\ pc = "written"
    /\ \E k \in Failed :
          /\ docs[visited[k].file].ok
          /\ ItemsOf(visited[k].mod, visited[k].file) # {}

\* C10: within one build_layer call no mod root, as a resolved path, is
\* scanned twice: one rediscovered from a later scan root is passed over, and
\* no file of a mod root is taken twice nor any element of it emitted twice.
ModRootScannedOnce ==
    /\ \A i \in 1..Len(scans) : \A j \in 1..Len(scans) :
          i # j => Resolve(scans[i]) # Resolve(scans[j])
    /\ \A i \in 1..Len(visited) : \A j \in 1..Len(visited) :
          i # j => <<Resolve(visited[i].mod), visited[i].file>>
                        # <<Resolve(visited[j].mod), visited[j].file>>
    /\ \A i \in 1..Len(items) : \A j \in 1..Len(items) :
          i # j => <<Resolve(items[i].mod), items[i].absPath, items[i].idx>>
                        # <<Resolve(items[j].mod), items[j].absPath, items[j].idx>>
    /\ \A i \in 1..Len(skips) : skips[i] \in SeqRange(scans)

\* A mod root that had emitted records was found again from the second scan
\* root and passed over.
WitnessModRootScannedOnce ==
    /\ pc = "written"
    /\ Len(scan_roots) = 2
    /\ scan_roots[1] # scan_roots[2]
    /\ skips # <<>>
    /\ \E k \in 1..Len(items) : items[k].mod = skips[1]

\* ---------------------------------------------------------------- infer_member_kind

\* Most children of a member element.
MaxKindChildren == 2

\* The children a member may have: list items, <key>, <value>, another
\* element, a comment; each with or without a <key> and a <value> child.
KindChildTags == {"li", "key", "value", "x"}
KindChildren ==
    {Node(t, k, v) : t \in KindChildTags, k \in BOOLEAN, v \in BOOLEAN}
        \cup {Node(CommentTag, FALSE, FALSE)}
KindMembers ==
    {[tag |-> <<"statBases">>, children |-> c] :
        c \in UNION {[1..n -> KindChildren] : n \in 0..MaxKindChildren}}

\* The call of infer_member_kind on one member element.
InferKind ==
    /\ pc = "setup"
    /\ pc' = "inferred"
    /\ inferred' = infer_member_kind(member)
    /\ UNCHANGED <<member, offKind>>

InitKind ==
    /\ pc = "setup" /\ RootsStart /\ FsStart /\ DiscStart /\ WalkStart /\ ExtStart /\ MetaStart /\ VerStart /\ BuildStart /\ JobStart
    /\ member \in KindMembers
    /\ inferred = "none"

NextKind == InferKind

SpecKind == InitKind /\ [][NextKind]_vars

\* The element children of the member, and what they carry.
ElementChildren == {i \in 1..Len(member.children) : member.children[i].tag # CommentTag}
CarriesPair(i) == member.children[i].hasKey /\ member.children[i].hasValue
AllLi == \A i \in ElementChildren : member.children[i].tag = "li"
MemberCarriesPair ==
    /\ \E i \in ElementChildren : member.children[i].tag = "key"
    /\ \E i \in ElementChildren : member.children[i].tag = "value"

\* C16: infer_member_kind gives Scalar to a member without element children;
\* List when all children are li and none carries both a key and a value
\* child; Map when the member itself or any child carries both; Class to
\* every other member with children.
KindByPriority ==
    pc = "inferred" =>
        inferred =
            IF ElementChildren = {} THEN "Scalar"
            ELSE IF AllLi /\ ~(\E i \in ElementChildren : CarriesPair(i)) THEN "List"
            ELSE IF MemberCarriesPair \/ (\E i \in ElementChildren : CarriesPair(i)) THEN "Map"
            ELSE "Class"

\* A member whose children are all li, one of them with a key and a value,
\* came out as a Map.
WitnessKindByPriority ==
    /\ pc = "inferred"
    /\ ElementChildren # {}
    /\ AllLi
    /\ \E i \in ElementChildren : CarriesPair(i)
    /\ inferred = "Map"

\* ---------------------------------------------------------------- build_layer, nested scan roots

\* The turns of the loop over xml_files that took a candidate document.
DocTurns == {k \in 1..Len(visited) : visited[k].outcome # "about"}

\* C17: within one build_layer call, whatever the scan roots, every candidate
\* document is processed at most once and no definition element of a document
\* yields more than one Item Record.
DocProcessedOnce ==
    /\ \A i \in DocTurns : \A j \in DocTurns : i # j => visited[i].file # visited[j].file
    /\ \A i \in 1..Len(items) : \A j \in 1..Len(items) :
          i # j => <<items[i].absPath, items[i].idx>> # <<items[j].absPath, items[j].idx>>

\* A document below a mod root that lies in another mod root, found from a
\* second scan root above the first, was processed under both and its Def is
\* twice in the written list.
WitnessDocProcessedTwice ==
    /\ pc = "written"
    /\ Len(scans) = 2
    /\ IsWithinStrict(scans[1], scans[2])
    /\ \E i \in 1..Len(items) : \E j \in 1..Len(items) :
          /\ i < j
          /\ items[i].absPath = items[j].absPath
          /\ items[i].idx = items[j].idx
          /\ items[i].mod = scans[1]
          /\ items[j].mod = scans[2]

\* ---------------------------------------------------------------- build_layer as one call

\* The loop over mod_dirs of one scan root, from the state st of items, meta,
\* visited and seen (seen_mods): every state it can end in, over the orders in
\* which the files of a mod root may be listed.
RECURSIVE ModsFrom(_, _, _)
ModsFrom(st, ms, pr) ==
    IF ms = <<>> THEN {st}
    ELSE LET mod_dir == Head(ms)
             real == Resolve(mod_dir)
         IN  IF SeenAlready(real, st.seen)
             THEN ModsFrom(st, Tail(ms), pr)
             ELSE UNION { LET r == ScanFiles([items |-> st.items, meta |-> st.meta,
                                             visited |-> st.visited], mod_dir, xs)
                          IN  ModsFrom([items |-> r.items, meta |-> r.meta,
                                        visited |-> r.visited,
                                        seen |-> st.seen \cup {real}], Tail(ms), pr) :
                            xs \in iter_xml_files_pruned(mod_dir, pr) }

\* The loop over roots.
RECURSIVE RootsFrom(_, _, _)
RootsFrom(st, rs, pr) ==
    IF rs = <<>> THEN {st}
    ELSE UNION { UNION { RootsFrom(st2, Tail(rs), pr) : st2 \in ModsFrom(st, ms, pr) } :
                    ms \in discover_mod_dirs(Head(rs)) }

\* build_layer(layer_name, roots, out_dir, meta, prune_dirs_lower): every
\* outcome of the call, as the items written and the meta left behind.
build_layer(rs, m, pr) ==
    {[items |-> st.items, meta |-> st.meta] :
        st \in RootsFrom([items |-> <<>>, meta |-> m, visited |-> <<>>, seen |-> {}], rs, pr)}

\* The registry every layer of the model starts from.
EmptyMeta == [defTypes |-> {}, kind |-> [k \in DefTypeNames \X MemberNames |-> "none"]]

\* C13: every run of build_layer over the same tree, scan roots and prune set
\* ends with the same records in the same order and the same registry,
\* whatever the order in which directories and files are listed.
SameTreeSameItems ==
    pc = "written" =>
        \A o \in build_layer(scan_roots, EmptyMeta, prune) :
            o.items = items /\ o.meta = meta

\* Two documents lie in one directory of a mod root, and another listing
\* order of that directory ends with the same records in another order.
WitnessOrderFollowsListing ==
    /\ pc = "written"
    /\ Len(scans) = 1
    /\ \E i \in DocTurns : \E j \in DocTurns :
          i < j /\ Parent(visited[i].file) = Parent(visited[j].file)
    /\ \E o \in build_layer(scan_roots, EmptyMeta, prune) :
          /\ o.items # items
          /\ SeqRange(o.items) = SeqRange(items)
          /\ o.meta = meta

\* ---------------------------------------------------------------- helper: build jobs

\* Most scan roots of one layer in the configuration file, and most rebuild
\* requests the callers make.
MaxLayerRoots == 1
MaxRequests == 2

\* for L in ["official", "workshop", "dev"]
LayerOrder == <<"official", "workshop", "dev">>
LayerNames == {"official", "workshop", "dev"}
\* The name of rim_meta.json among the output files; items.<layer>.json goes
\* by its layer.
MetaFile == "rim_meta"

\* The layers a request names: any of the three, the empty set standing for
\* a request that names none of them.
RequestLayers == SUBSET LayerNames

\* selected = [L for L in [...] if L in (self.layers or [])], all three when
\* that is empty
Selected(ls) ==
    LET sel == SelectSeq(LayerOrder, LAMBDA L : L \in ls)
    IN  IF sel = <<>> THEN LayerOrder ELSE sel

\* A fraction n/d as the pair <<n, d>>, d > 0: self.progress.
Leq(p, q) == p[1] * q[2] <= q[1] * p[2]
Less(p, q) == p[1] * q[2] < q[1] * p[2]
\* A progress that counts the layers only, with no step kept for the report.
ProgressNoReserve(step, total_steps) == <<step, total_steps - 1>>
\* min(0.95, step / total_steps)
ProgressAt(step, total_steps) ==
    IF Leq(<<19, 20>>, <<step, total_steps>>) THEN <<19, 20>> ELSE <<step, total_steps>>

\* _Job.__init__
NewJob(ls) ==
    [layers |-> ls, state |-> "queued", progress |-> <<0, 1>>, at |-> "queued",
     selected |-> <<>>, step |-> 0, total_steps |-> 0, old_out |-> OrigOut,
     raised |-> FALSE, meta |-> EmptyMeta, wrote |-> {}, captured |-> {}]

\* The test of start_job that forgets the job whose thread has not yet run.
IsRunningOnly(st) == st = "running"
\* _current_job.state in ("queued", "running")
IsActive(st) == st \in {"queued", "running"}

\* start_job(layers, ...), under _job_lock: the current job is returned while
\* it is queued or running; otherwise a job is made, becomes the current one
\* and its thread is started.
start_job(ls) ==
    /\ requests > 0
    /\ requests' = requests - 1
    /\ IF current_job # 0 /\ IsActive(jobs[current_job].state)
       THEN /\ returned' = [job |-> current_job, made |-> FALSE]
            /\ UNCHANGED <<jobs, current_job>>
       ELSE /\ jobs' = Append(jobs, NewJob(ls))
            /\ current_job' = Len(jobs) + 1
            /\ returned' = [job |-> Len(jobs) + 1, made |-> TRUE]
    /\ UNCHANGED <<pc, cfg, sys_stdout, out_files, console, offJob>>

\* print(...) by the thread of job j: the text goes to whatever sys.stdout
\* is at that moment, the process's stream or some job's _Writer, which
\* appends it to that job's log.
LogsAfter(js, j) ==
    IF sys_stdout = OrigOut THEN js ELSE [js EXCEPT ![sys_stdout].captured = @ \cup {j}]
ConsoleAfter(j) == IF sys_stdout = OrigOut THEN console \cup {j} ELSE console

\* The prune set of the run: DEFAULT_PRUNE_DIRS with no override.
RunPrune == {"languages"}

\* A layer without roots that starts the registry afresh.
EmptyLayerResets(m) == {[items |-> <<>>, meta |-> EmptyMeta]}
\* if not roots: "[]" is written and meta is not touched.
EmptyLayer(m) == {[items |-> <<>>, meta |-> m]}

\* The steps of _Job._run, the thread of job j; at is where the thread stands.

\* self.state = "running"
RunBegin(j) ==
    /\ jobs[j].at = "queued"
    /\ jobs' = [jobs EXCEPT ![j].state = "running", ![j].at = "config"]
    /\ UNCHANGED <<pc, cfg, requests, current_job, sys_stdout, out_files, console, returned, offJob>>

\* The configuration is read, out_dir.mkdir succeeds or raises, the prune
\* set and the empty registry are made, the layers are selected and the
\* steps counted.
RunPrepare(j) ==
    /\ jobs[j].at = "config"
    /\ \E made \in BOOLEAN :
          jobs' = IF made
                  THEN [jobs EXCEPT ![j].meta = EmptyMeta,
                                    ![j].selected = Selected(jobs[j].layers),
                                    ![j].total_steps = Len(Selected(jobs[j].layers)) + 1,
                                    ![j].step = 0,
                                    ![j].at = "save"]
                  ELSE [jobs EXCEPT ![j].at = "except"]
    /\ UNCHANGED <<pc, cfg, requests, current_job, sys_stdout, out_files, console, returned, offJob>>

\* old_out = sys.stdout
RunSaveOut(j) ==
    /\ jobs[j].at = "save"
    /\ jobs' = [jobs EXCEPT ![j].old_out = sys_stdout, ![j].at = "set"]
    /\ UNCHANGED <<pc, cfg, requests, current_job, sys_stdout, out_files, console, returned, offJob>>

\* sys.stdout = w
RunSetOut(j) ==
    /\ jobs[j].at = "set"
    /\ sys_stdout' = j
    /\ jobs' = [jobs EXCEPT ![j].at = "layers"]
    /\ UNCHANGED <<pc, cfg, requests, current_job, out_files, console, returned, offJob>>

\* One turn of the loop over selected: a layer without roots gets "[]"
\* written, another is built by build_layer, which writes its items; the
\* write succeeds or raises; then step and progress move on.
RunLayer(j) ==
    /\ jobs[j].at = "layers"
    /\ jobs[j].step < Len(jobs[j].selected)
    /\ LET L == jobs[j].selected[jobs[j].step + 1]
           layer_roots == cfg[L]
           step == jobs[j].step + 1
       IN  \E written \in BOOLEAN :
           \E o \in IF layer_roots = <<>>
                    THEN EmptyLayer(jobs[j].meta)
                    ELSE build_layer(layer_roots, jobs[j].meta, RunPrune) :
              IF written
              THEN /\ out_files' = (L :> o.items) @@ out_files
                   /\ jobs' = LogsAfter([jobs EXCEPT ![j].meta = o.meta,
                                                     ![j].wrote = @ \cup {L},
                                                     ![j].step = step,
                                                     ![j].progress = ProgressAt(step, jobs[j].total_steps)],
                                        j)
                   /\ console' = ConsoleAfter(j)
              ELSE /\ jobs' = IF layer_roots = <<>>
                              THEN [jobs EXCEPT ![j].raised = TRUE, ![j].at = "restore"]
                              ELSE LogsAfter([jobs EXCEPT ![j].meta = o.meta,
                                                          ![j].raised = TRUE,
                                                          ![j].at = "restore"], j)
                   /\ console' = IF layer_roots = <<>> THEN console ELSE ConsoleAfter(j)
                   /\ UNCHANGED out_files
    /\ UNCHANGED <<pc, cfg, requests, current_job, sys_stdout, returned, offJob>>

\* The loop is over: rim_meta.json is written, or the write raises.
RunWriteMeta(j) ==
    /\ jobs[j].at = "layers"
    /\ jobs[j].step = Len(jobs[j].selected)
    /\ \E written \in BOOLEAN :
          IF written
          THEN /\ out_files' = (MetaFile :> jobs[j].meta) @@ out_files
               /\ jobs' = LogsAfter([jobs EXCEPT ![j].wrote = @ \cup {MetaFile},
                                                 ![j].at = "full"], j)
               /\ console' = ConsoleAfter(j)
          ELSE /\ jobs' = [jobs EXCEPT ![j].raised = TRUE, ![j].at = "restore"]
               /\ UNCHANGED <<out_files, console>>
    /\ UNCHANGED <<pc, cfg, requests, current_job, sys_stdout, returned, offJob>>

\* self.progress = 1.0
RunFull(j) ==
    /\ jobs[j].at = "full"
    /\ jobs' = [jobs EXCEPT ![j].progress = <<1, 1>>, ![j].at = "done"]
    /\ UNCHANGED <<pc, cfg, requests, current_job, sys_stdout, out_files, console, returned, offJob>>

\* self.state = "done"
RunDone(j) ==
    /\ jobs[j].at = "done"
    /\ jobs' = [jobs EXCEPT ![j].state = "done", ![j].at = "say"]
    /\ UNCHANGED <<pc, cfg, requests, current_job, sys_stdout, out_files, console, returned, offJob>>

\* print("Done.")
RunSayDone(j) ==
    /\ jobs[j].at = "say"
    /\ jobs' = LogsAfter([jobs EXCEPT ![j].at = "restore"], j)
    /\ console' = ConsoleAfter(j)
    /\ UNCHANGED <<pc, cfg, requests, current_job, sys_stdout, out_files, returned, offJob>>

\* finally: sys.stdout = old_out; an exception in flight goes on to the
\* handler.
RunRestore(j) ==
    /\ jobs[j].at = "restore"
    /\ sys_stdout' = jobs[j].old_out
    /\ jobs' = [jobs EXCEPT ![j].at = IF jobs[j].raised THEN "except" ELSE "end"]
    /\ UNCHANGED <<pc, cfg, requests, current_job, out_files, console, returned, offJob>>

\* A handler that logs the message and leaves the state as it is.
RunExceptKeepsState(j) ==
    /\ jobs[j].at = "except"
    /\ jobs' = [jobs EXCEPT ![j].captured = @ \cup {j}, ![j].at = "end"]
    /\ UNCHANGED <<pc, cfg, requests, current_job, sys_stdout, out_files, console, returned, offJob>>

\* except Exception: self.state = "error", and the message goes into the
\* job's own log.
RunExcept(j) ==
    /\ jobs[j].at = "except"
    /\ jobs' = [jobs EXCEPT ![j].state = "error", ![j].captured = @ \cup {j}, ![j].at = "end"]
    /\ UNCHANGED <<pc, cfg, requests, current_job, sys_stdout, out_files, console, returned, offJob>>

\* The tree and the configuration the jobs run on.
RunDocPaths == {<<"a", "x.xml">>, <<"b", "x.xml">>}
RunScanRoots == {<<"a">>, <<"b">>}
RunRootLists == UNION {[1..n -> RunScanRoots] : n \in 0..MaxLayerRoots}
StatClass == [tag |-> <<"statBases">>, children |-> <<Node("x", FALSE, FALSE)>>]
RunDocs ==
    { [ok |-> TRUE, root |-> El(DefsTag, <<>>, "pretty"),
       children |-> <<El(<<"Thing", "Def">>, <<StatList>>, "pretty")>>],
      [ok |-> TRUE, root |-> El(DefsTag, <<>>, "pretty"),
       children |-> <<El(<<"Thing", "Def">>, <<StatClass, LabelScalar>>, "pretty")>>],
      [ok |-> TRUE, root |-> El(DefsTag, <<>>, "pretty"),
       children |-> <<El(<<"Thing", "Def">>, <<>>, "pretty")>>] }

RunTree ==
    /\ dirs = {<<>>, <<"a">>, <<"b">>}
    /\ abouts = {<<"a">>, <<"b">>}
    /\ files = {}

\* One rebuild request on any tree and configuration.
InitRun ==
    /\ pc = "setup" /\ RootsStart /\ RunTree /\ DiscStart /\ WalkStart /\ ExtStart /\ MetaStart /\ VerStart /\ KindStart
    /\ docs \in [RunDocPaths -> RunDocs]
    /\ scan_roots = <<>> /\ ri = 0 /\ mod_dirs = <<>> /\ mi = 0 /\ seen_mods = {}
    /\ items = <<>> /\ scans = <<>> /\ skips = <<>> /\ visited = <<>>
    /\ cfg \in [LayerNames -> RunRootLists]
    /\ requests = 1
    /\ jobs = <<>>
    /\ current_job = 0
    /\ sys_stdout = OrigOut
    /\ out_files = <<>>
    /\ console = {}
    /\ returned = [job |-> 0, made |-> FALSE]

NextRun ==
    \/ \E ls \in RequestLayers : start_job(ls)
    \/ \E j \in 1..Len(jobs) :
          \/ RunBegin(j)
          \/ RunPrepare(j)
          \/ RunSaveOut(j)
          \/ RunSetOut(j)
          \/ RunLayer(j)
          \/ RunWriteMeta(j)
          \/ RunFull(j)
          \/ RunDone(j)
          \/ RunSayDone(j)
          \/ RunRestore(j)
          \/ RunExcept(j)

SpecRun == InitRun /\ [][NextRun]_vars

\* The thread of a job, once started, is scheduled until _run returns.
JobStep(j) ==
    \/ RunBegin(j) \/ RunPrepare(j) \/ RunSaveOut(j) \/ RunSetOut(j) \/ RunLayer(j)
    \/ RunWriteMeta(j) \/ RunFull(j) \/ RunDone(j) \/ RunSayDone(j) \/ RunRestore(j)
    \/ RunExcept(j)

\* One rebuild request on one tree of documents, every layer having no root
\* or the mod directory a, once or more.
LiveRootLists == UNION {[1..n -> {<<"a">>}] : n \in 0..MaxLayerRoots}
InitLive ==
    /\ pc = "setup" /\ RootsStart /\ RunTree /\ DiscStart /\ WalkStart /\ ExtStart /\ MetaStart /\ VerStart /\ KindStart
    /\ docs = [p \in RunDocPaths |->
                 CHOOSE d \in RunDocs : d.children[1].members = <<StatList>>]
    /\ scan_roots = <<>> /\ ri = 0 /\ mod_dirs = <<>> /\ mi = 0 /\ seen_mods = {}
    /\ items = <<>> /\ scans = <<>> /\ skips = <<>> /\ visited = <<>>
    /\ cfg \in [LayerNames -> LiveRootLists]
    /\ requests = 1
    /\ jobs = <<>>
    /\ current_job = 0
    /\ sys_stdout = OrigOut
    /\ out_files = <<>>
    /\ console = {}
    /\ returned = [job |-> 0, made |-> FALSE]

SpecRunLive == InitLive /\ [][NextRun]_vars /\ WF_vars(\E j \in 1..Len(jobs) : JobStep(j))

\* ---------------------------------------------------------------- claims on one run

\* The thread of job j has just completed a turn of the loop over selected.
LayerCompleted(j) == j <= Len(jobs) /\ jobs'[j].step = jobs[j].step + 1
LayerOf(j) == jobs[j].selected[jobs[j].step + 1]

\* C11: a layer without scan roots is no error: its file is written and
\* holds the empty collection, the registry is as it was before the layer,
\* and the run goes on with the loop over the remaining layers.
EmptyLayerIsNoError ==
    [][\A j \in 1..Len(jobs) :
          (LayerCompleted(j) /\ cfg[LayerOf(j)] = <<>>) =>
              /\ LayerOf(j) \in DOMAIN out_files'
              /\ out_files'[LayerOf(j)] = <<>>
              /\ jobs'[j].meta = jobs[j].meta
              /\ jobs'[j].state = "running"
              /\ jobs'[j].at = "layers"]_vars

\* A run is done whose second layer had no roots, after a first layer that
\* registered a type and before a third that wrote records.
WitnessEmptyLayerIsNoError ==
    \E j \in 1..Len(jobs) :
        /\ jobs[j].state = "done"
        /\ jobs[j].selected = LayerOrder
        /\ cfg["official"] # <<>> /\ cfg["workshop"] = <<>> /\ cfg["dev"] # <<>>
        /\ out_files["workshop"] = <<>>
        /\ out_files["official"] # <<>>
        /\ out_files["dev"] # <<>>
        /\ jobs[j].meta.defTypes # {}

\* get_job(job_id) and api_status: the progress a poll for job j's id
\* returns, in ten-thousandths: round(float(job.progress), 4) while j is the
\* current job, 0 ("idle") otherwise.
Round4(p) == (p[1] * 20000 + p[2]) \div (2 * p[2])
PolledProgress(j) == IF current_job = j THEN Round4(jobs[j].progress) ELSE 0

\* The place of a layer in the fixed order.
LayerRank(L) == CHOOSE i \in 1..Len(LayerOrder) : LayerOrder[i] = L

\* C12: a job's progress starts at 0, never decreases, grows with every
\* selected layer completed (the layers being taken in the order official,
\* workshop, dev), never exceeds 1, and is below 1 until rim_meta.json has
\* been written; so is the value a poll returns while the job is active.
ProgressMonotone ==
    [][/\ \A j \in (Len(jobs) + 1)..Len(jobs') : jobs'[j].progress = <<0, 1>>
       /\ \A j \in 1..Len(jobs) :
            /\ Leq(jobs[j].progress, jobs'[j].progress)
            /\ Leq(jobs'[j].progress, <<1, 1>>)
            /\ LayerCompleted(j) =>
                  /\ Less(jobs[j].progress, jobs'[j].progress)
                  /\ \A L \in jobs[j].wrote : LayerRank(L) < LayerRank(LayerOf(j))
            /\ ~Less(jobs'[j].progress, <<1, 1>>) => MetaFile \in jobs'[j].wrote
            /\ IsActive(jobs[j].state) => PolledProgress(j) <= PolledProgress(j)']_vars

\* A job of three layers has completed two of them and a poll shows 0.5.
WitnessProgressMonotone ==
    \E j \in 1..Len(jobs) :
        /\ jobs[j].state = "running"
        /\ Len(jobs[j].selected) = 3
        /\ jobs[j].step = 2
        /\ jobs[j].progress = <<2, 4>>
        /\ PolledProgress(j) = 5000

\* What the run of job j observed: for every record written, in all layers,
\* the members of its element, each with the kind inferred for it.
RecordsOf(j) == UNION {SeqRange(out_files[L]) : L \in SeqRange(jobs[j].selected)}
Observations(j) ==
    UNION { {<<<<it.defType, Head(StripNs(mb.tag))>>, infer_member_kind(mb)>> :
                mb \in SeqRange(ElemAt(docs[it.absPath], it.idx).members)} :
            it \in RecordsOf(j) }
KindsSeen(j, k) == {o[2] : o \in {x \in Observations(j) : x[1] = k}}

\* C15: at the end of a run the kind on record for every (defType, member)
\* is the highest-ranked kind among all its observations in all layers of the
\* run, and nothing is on record for a member never observed.
RegistryIsHighestSeen ==
    \A j \in 1..Len(jobs) :
        jobs[j].state = "done" =>
            /\ jobs[j].meta.defTypes = {it.defType : it \in RecordsOf(j)}
            /\ \A k \in DefTypeNames \X MemberNames :
                  IF KindsSeen(j, k) = {}
                  THEN jobs[j].meta.kind[k] = "none"
                  ELSE /\ jobs[j].meta.kind[k] \in KindsSeen(j, k)
                       /\ \A o \in KindsSeen(j, k) :
                             KindRank(o) <= KindRank(jobs[j].meta.kind[k])

\* A member was observed as a Class in the official layer and as a List in
\* the dev layer, and the run ended with Class on record.
WitnessRegistryIsHighestSeen ==
    \E j \in 1..Len(jobs) :
        /\ jobs[j].state = "done"
        /\ jobs[j].selected = LayerOrder
        /\ \E it \in SeqRange(out_files["official"]) :
              StatClass \in SeqRange(ElemAt(docs[it.absPath], it.idx).members)
        /\ \E it \in SeqRange(out_files["dev"]) :
              StatList \in SeqRange(ElemAt(docs[it.absPath], it.idx).members)
        /\ \A it \in SeqRange(out_files["dev"]) :
              StatClass \notin SeqRange(ElemAt(docs[it.absPath], it.idx).members)
        /\ jobs[j].meta.kind[<<<<"Thing", "Def">>, "statBases">>] = "Class"

\* The states a job may move between in one step.
LifecycleSteps ==
    {<<"queued", "running">>, <<"running", "done">>, <<"running", "error">>}
Ended(j) == j <= Len(jobs) /\ jobs[j].state \in {"done", "error"}

\* C18: a job is made queued and moves queued -> running -> done or error,
\* where it stays; every job made reaches done or error; a job that is done
\* has written the file of every selected layer and rim_meta.json and its
\* progress is 1; a job whose output could not be made or written ends in
\* error with its progress below 1.
JobLifecycle ==
    /\ [][/\ \A j \in (Len(jobs) + 1)..Len(jobs') : jobs'[j].state = "queued"
          /\ \A j \in 1..Len(jobs) :
                \/ jobs'[j].state = jobs[j].state
                \/ <<jobs[j].state, jobs'[j].state>> \in LifecycleSteps]_vars
    /\ [](\A j \in 1..Len(jobs) :
            /\ jobs[j].state = "done" =>
                  /\ SeqRange(Selected(jobs[j].layers)) \cup {MetaFile} \subseteq jobs[j].wrote
                  /\ jobs[j].wrote \subseteq DOMAIN out_files
                  /\ jobs[j].progress = <<1, 1>>
            /\ (jobs[j].raised \/ jobs[j].at = "except" \/ jobs[j].state = "error") =>
                  /\ jobs[j].state # "done"
                  /\ Less(jobs[j].progress, <<1, 1>>))
    /\ (jobs # <<>>) ~> (\A j \in 1..Len(jobs) : Ended(j))

\* A job ended in error after it had written one layer: the write of the
\* next file raised, and its progress stayed below 1.
WitnessJobLifecycle ==
    \E j \in 1..Len(jobs) :
        /\ jobs[j].state = "error"
        /\ jobs[j].at = "end"
        /\ jobs[j].raised
        /\ jobs[j].wrote # {}
        /\ Less(<<0, 1>>, jobs[j].progress)

\* ---------------------------------------------------------------- concurrent requests

\* Rebuild requests arriving at any moments of the jobs' runs, on a
\* configuration whose workshop layer has no root.
InitJobs ==
    /\ pc = "setup" /\ RootsStart /\ RunTree /\ DiscStart /\ WalkStart /\ ExtStart /\ MetaStart /\ VerStart /\ KindStart
    /\ docs = [p \in RunDocPaths |->
                 CHOOSE d \in RunDocs : d.children[1].members = <<StatList>>]
    /\ scan_roots = <<>> /\ ri = 0 /\ mod_dirs = <<>> /\ mi = 0 /\ seen_mods = {}
    /\ items = <<>> /\ scans = <<>> /\ skips = <<>> /\ visited = <<>>
    /\ cfg = [L \in LayerNames |-> IF L = "workshop" THEN <<>> ELSE <<<<"a">>>>]
    /\ requests = MaxRequests
    /\ jobs = <<>>
    /\ current_job = 0
    /\ sys_stdout = OrigOut
    /\ out_files = <<>>
    /\ console = {}
    /\ returned = [job |-> 0, made |-> FALSE]

SpecJobs == InitJobs /\ [][NextRun]_vars

\* The jobs that are queued or running.
ActiveJobs == {j \in 1..Len(jobs) : jobs[j].state \in {"queued", "running"}}

\* C14: at most one job is queued or running at any time; a request that
\* arrives while a job is queued or running makes no job and is answered
\* with that job; a job is made only when every job before it is done or in
\* error, and it becomes the current job.
OneActiveJob ==
    /\ [](Cardinality(ActiveJobs) <= 1)
    /\ [][requests' # requests =>
            IF ActiveJobs # {}
            THEN /\ jobs' = jobs
                 /\ current_job' = current_job
                 /\ ~returned'.made
                 /\ returned'.job \in ActiveJobs
            ELSE /\ Len(jobs') = Len(jobs) + 1
                 /\ SubSeq(jobs', 1, Len(jobs)) = jobs
                 /\ jobs'[Len(jobs')].state = "queued"
                 /\ returned' = [job |-> Len(jobs'), made |-> TRUE]
                 /\ current_job' = Len(jobs')]_vars

\* A second request arrived while the first job was running: it made no job
\* and was answered with the first.
WitnessOneActiveJob ==
    /\ Len(jobs) = 1
    /\ jobs[1].state = "running"
    /\ current_job = 1
    /\ requests = MaxRequests - 2
    /\ returned = [job |-> 1, made |-> FALSE]

\* The threads of all jobs have returned from _run.
AllReturned == \A j \in 1..Len(jobs) : jobs[j].at = "end"

\* C19: when the threads of all jobs have returned, sys.stdout is the
\* process's own stream again, every job's log holds the output of that job
\* alone, and no job's output went past its log to the process's stream.
StdoutRestoredLogsOwn ==
    AllReturned =>
        /\ sys_stdout = OrigOut
        /\ \A j \in 1..Len(jobs) : jobs[j].captured \subseteq {j}
        /\ console = {}

\* Both jobs have ended: the second was made between the first's
\* state = "done" and its finally, so that the first's last line is in the
\* second's log, the second's output went to the process's stream, and
\* sys.stdout is left at the writer of the first job.
WitnessStdoutLeftAtFinishedJob ==
    /\ Len(jobs) = 2
    /\ AllReturned
    /\ jobs[1].state = "done"
    /\ jobs[2].state = "done"
    /\ sys_stdout = 1
    /\ 1 \in jobs[2].captured
    /\ 2 \in console
====
